---- MODULE Spec2Model ----
(***************************************************************************)
(* A model of the etcd mapping client: typed scalar values with intents,   *)
(* the path-template resolver, the read and write record walkers, the      *)
(* collection handlers and the Get / Set handlers over a key-value store.  *)
(*                                                                         *)
(* Go strings are modelled as sequences of one-character strings, so that  *)
(* strings.Split, strings.HasPrefix and strings.Replace are computed       *)
(* character by character as the library computes them.                    *)
(***************************************************************************)
EXTENDS Integers, Sequences, FiniteSets, TLC

VARIABLES
    pc,       \* position of the caller: which call (if any) has just returned
    arg,      \* input of the pure-function specifications
    ret,      \* output of the pure-function specifications
    store,    \* the external key-value store: key -> stored string
    pathvar,  \* the caller's variable table (mutated by the walkers)
    model,    \* the record type (schema) the caller works with
    setLog,   \* the successful Set calls (record and operations), oldest first
    last,     \* the last call: its kind, input, operations, error and output
    nextID    \* number of identifiers GenerateUniqueID has handed out

vars == <<pc, arg, ret, store, pathvar, model, setLog, last, nextID>>

(***************************************************************************)
(* Bounds of the model.                                                    *)
(***************************************************************************)
MaxSegs == 3        \* segments of a path template in SpecPath
MaxSets == 2        \* successful Set calls in one behaviour
MaxSliceLen == 2    \* elements of a collection passed to Set or Get

(***************************************************************************)
(* Strings.                                                                *)
(***************************************************************************)
Slash == "/"
Colon == ":"

\* the const tagKey's marker for the accumulator variable name
AtName == <<"@">>

\* strings.HasPrefix(p, ":")
HasPrefix(p, c) == Len(p) >= 1 /\ p[1] = c

\* strings.TrimPrefix(p, ":")
TrimPrefix(p, c) == IF HasPrefix(p, c) THEN Tail(p) ELSE p

\* index of the first occurrence of character c in s at or after i, 0 if none
RECURSIVE IndexFrom(_, _, _)
IndexFrom(s, c, i) ==
    IF i > Len(s) THEN 0
    ELSE IF s[i] = c THEN i
    ELSE IndexFrom(s, c, i + 1)

\* strings.Split(s, "/"): always at least one segment
RECURSIVE Split(_, _)
Split(s, c) ==
    LET k == IndexFrom(s, c, 1) IN
    IF k = 0 THEN <<s>>
    ELSE <<SubSeq(s, 1, k - 1)>> \o Split(SubSeq(s, k + 1, Len(s)), c)

\* strings.Replace(s, old, new, -1): every non-overlapping occurrence of old,
\* scanning from the left; an empty old matches before every character and
\* at the end
RECURSIVE Replace(_, _, _)
Replace(s, old, new) ==
    IF old = <<>> THEN
        IF s = <<>> THEN new
        ELSE new \o <<Head(s)>> \o Replace(Tail(s), old, new)
    ELSE IF Len(s) < Len(old) THEN s
    ELSE IF SubSeq(s, 1, Len(old)) = old
         THEN new \o Replace(SubSeq(s, Len(old) + 1, Len(s)), old, new)
         ELSE <<Head(s)>> \o Replace(Tail(s), old, new)

\* joins segments with "/" (the inverse of Split)
RECURSIVE Join(_)
Join(segs) ==
    IF Len(segs) = 0 THEN <<>>
    ELSE IF Len(segs) = 1 THEN segs[1]
    ELSE segs[1] \o <<Slash>> \o Join(Tail(segs))

(***************************************************************************)
(* pathReplace: replaces the stub values for the pathvars and returns the  *)
(* fully qualified path.  The loop ranges over the segments of the         *)
(* ORIGINAL path while each replacement rewrites the whole current path.   *)
(***************************************************************************)
ErrNone == "nil"
ErrSliceAt == "cannot use @ pathvar inside slice"
ErrNotPopulated == "pathvar not populated"

RECURSIVE pathReplaceLoop(_, _, _, _, _)
pathReplaceLoop(pathArr, i, path, pathvars, inslice) ==
    IF i > Len(pathArr) THEN [path |-> path, err |-> ErrNone]
    ELSE LET p == pathArr[i] IN
         IF HasPrefix(p, Colon) THEN
             LET variable == TrimPrefix(p, Colon) IN
             IF variable = AtName /\ inslice
             THEN [path |-> <<>>, err |-> ErrSliceAt]
             ELSE IF variable \notin DOMAIN pathvars
             THEN [path |-> <<>>, err |-> ErrNotPopulated]
             ELSE pathReplaceLoop(pathArr, i + 1,
                                  Replace(path, p, pathvars[variable]),
                                  pathvars, inslice)
         ELSE pathReplaceLoop(pathArr, i + 1, path, pathvars, inslice)

pathReplace(path, pathvars, inslice) ==
    pathReplaceLoop(Split(path, Slash), 1, path, pathvars, inslice)

(***************************************************************************)
(* Scalar values.  A field of a record is a pointer to a typed value; the  *)
(* pointer is nil, the address of the type's get sentinel (&getStringOp,   *)
(* ...), the address of its delete sentinel, or the address of a value     *)
(* allocated by a Set constructor or by reflect.New.                       *)
(***************************************************************************)
ScalarTypes == {"time", "uuid", "string", "int", "uint", "bool", "bytes"}

\* time.Time as its UTC calendar fields and nanoseconds
TimeOf(Y, M, D, h, m, s, ns) ==
    [Y |-> Y, M |-> M, D |-> D, h |-> h, m |-> m, s |-> s, ns |-> ns]

\* the zero value of each type (the value of the package-level sentinels)
ZeroOf(typ) ==
    CASE typ = "time" -> TimeOf(1, 1, 1, 0, 0, 0, 0)
      [] typ = "uuid" -> <<>>
      [] typ = "string" -> <<>>
      [] typ = "int" -> 0
      [] typ = "uint" -> 0
      [] typ = "bool" -> FALSE
      [] typ = "bytes" -> <<>>

NilPtr(typ) == [typ |-> typ, ptr |-> "nil", val |-> ZeroOf(typ)]
\* GetTime, GetUuid, GetString, GetInt, GetUint, GetBool, GetBytes
GetValue(typ) == [typ |-> typ, ptr |-> "getOp", val |-> ZeroOf(typ)]
\* DeleteTime, DeleteUuid, DeleteString, DeleteInt, DeleteUint, DeleteBool, ...
DeleteValue(typ) == [typ |-> typ, ptr |-> "deleteOp", val |-> ZeroOf(typ)]
\* SetTime, SetUuid, SetString, SetInt, SetUint, SetBool, SetBytes
SetValue(typ, v) == [typ |-> typ, ptr |-> "new", val |-> v]

\* e == &getXOp
IsGet(e) == e.ptr = "getOp"
\* a variant without the nil test
IsSetNotDelete(e) == e.ptr # "deleteOp"
\* e != &deleteXOp && e != nil
IsSet(e) == e.ptr # "deleteOp" /\ e.ptr # "nil"
\* a variant that takes the nil pointer for the delete sentinel
IsDeleteNil(e) == e.ptr = "nil"
\* e == &deleteXOp
IsDelete(e) == e.ptr = "deleteOp"

(***************************************************************************)
(* strconv and time formatting, digit by digit.                            *)
(***************************************************************************)
DigitChar == <<"0", "1", "2", "3", "4", "5", "6", "7", "8", "9">>
IsDigit(c) == \E d \in 1..10 : DigitChar[d] = c
DigitVal(c) == (CHOOSE d \in 1..10 : DigitChar[d] = c) - 1
AllDigits(s) == \A i \in 1..Len(s) : IsDigit(s[i])

RECURSIVE FormatNat(_)
FormatNat(n) ==
    IF n < 10 THEN <<DigitChar[n + 1]>>
    ELSE FormatNat(n \div 10) \o <<DigitChar[(n % 10) + 1]>>

RECURSIVE NatOf(_, _)
NatOf(s, acc) ==
    IF s = <<>> THEN acc ELSE NatOf(Tail(s), acc * 10 + DigitVal(Head(s)))

\* a variant that drops the sign
FormatIntUnsigned(i) == IF i < 0 THEN FormatNat(0 - i) ELSE FormatNat(i)
\* strconv.FormatInt(i, 10)
FormatInt(i) == IF i < 0 THEN <<"-">> \o FormatNat(0 - i) ELSE FormatNat(i)
\* strconv.FormatUint(u, 10)
FormatUint(u) == FormatNat(u)
\* strconv.FormatBool(b)
FormatBool(b) ==
    IF b THEN <<"t", "r", "u", "e">> ELSE <<"f", "a", "l", "s", "e">>

ErrSyntax == "invalid syntax"

\* strconv.ParseUint(s, 10, 64): digits only, no sign
ParseUint(s) ==
    IF s = <<>> \/ ~AllDigits(s) THEN [err |-> ErrSyntax, val |-> 0]
    ELSE [err |-> ErrNone, val |-> NatOf(s, 0)]

\* strconv.ParseInt(s, 10, 64): an optional sign, then digits
ParseInt(s) ==
    IF s = <<>> THEN [err |-> ErrSyntax, val |-> 0]
    ELSE LET neg == s[1] = "-"
             body == IF s[1] \in {"+", "-"} THEN Tail(s) ELSE s
             u == ParseUint(body)
         IN IF u.err # ErrNone THEN [err |-> ErrSyntax, val |-> 0]
            ELSE [err |-> ErrNone, val |-> IF neg THEN 0 - u.val ELSE u.val]

\* strconv.ParseBool(s)
ParseBool(s) ==
    IF s \in { <<"1">>, <<"t">>, <<"T">>, <<"T", "R", "U", "E">>,
               <<"t", "r", "u", "e">>, <<"T", "r", "u", "e">> }
    THEN [err |-> ErrNone, val |-> TRUE]
    ELSE IF s \in { <<"0">>, <<"f">>, <<"F">>, <<"F", "A", "L", "S", "E">>,
                    <<"f", "a", "l", "s", "e">>, <<"F", "a", "l", "s", "e">> }
    THEN [err |-> ErrNone, val |-> FALSE]
    ELSE [err |-> ErrSyntax, val |-> FALSE]

Pad2(n) == <<DigitChar[(n \div 10) + 1], DigitChar[(n % 10) + 1]>>
Pad4(n) == Pad2(n \div 100) \o Pad2(n % 100)

\* time.Time.Format(time.RFC3339), "2006-01-02T15:04:05Z07:00", of a UTC
\* time: the layout has no fractional seconds, so the nanoseconds are not
\* printed
FormatRFC3339(t) ==
    Pad4(t.Y) \o <<"-">> \o Pad2(t.M) \o <<"-">> \o Pad2(t.D) \o <<"T">>
    \o Pad2(t.h) \o <<":">> \o Pad2(t.m) \o <<":">> \o Pad2(t.s) \o <<"Z">>

\* the nanoseconds a fraction ".ddd" stands for (nine digits, right padded)
RECURSIVE FracNanos(_, _)
FracNanos(ds, width) ==
    IF width = 0 THEN 0
    ELSE (IF ds = <<>> THEN 0 ELSE DigitVal(Head(ds)))
           * (IF width = 9 THEN 100000000
              ELSE IF width = 8 THEN 10000000
              ELSE IF width = 7 THEN 1000000
              ELSE IF width = 6 THEN 100000
              ELSE IF width = 5 THEN 10000
              ELSE IF width = 4 THEN 1000
              ELSE IF width = 3 THEN 100
              ELSE IF width = 2 THEN 10 ELSE 1)
         + FracNanos(IF ds = <<>> THEN <<>> ELSE Tail(ds), width - 1)

\* time.Parse(time.RFC3339, s) of a UTC ("Z") timestamp; a fraction after
\* the seconds is accepted although the layout has none
ParseRFC3339(s) ==
    LET bad == [err |-> ErrSyntax, val |-> ZeroOf("time")]
        num(i, j) == NatOf(SubSeq(s, i, j), 0)
        shape ==
            /\ Len(s) >= 20
            /\ AllDigits(SubSeq(s, 1, 4)) /\ s[5] = "-"
            /\ AllDigits(SubSeq(s, 6, 7)) /\ s[8] = "-"
            /\ AllDigits(SubSeq(s, 9, 10)) /\ s[11] = "T"
            /\ AllDigits(SubSeq(s, 12, 13)) /\ s[14] = ":"
            /\ AllDigits(SubSeq(s, 15, 16)) /\ s[17] = ":"
            /\ AllDigits(SubSeq(s, 18, 19))
            /\ s[Len(s)] = "Z"
            /\ \/ Len(s) = 20
               \/ /\ Len(s) >= 22
                  /\ s[20] = "."
                  /\ AllDigits(SubSeq(s, 21, Len(s) - 1))
    IN IF ~shape THEN bad
       ELSE LET t == TimeOf(num(1, 4), num(6, 7), num(9, 10), num(12, 13),
                            num(15, 16), num(18, 19),
                            IF Len(s) = 20 THEN 0
                            ELSE FracNanos(SubSeq(s, 21, Len(s) - 1), 9))
            IN IF t.M \in 1..12 /\ t.D \in 1..31 /\ t.h < 24 /\ t.m < 60
                  /\ t.s < 60
               THEN [err |-> ErrNone, val |-> t]
               ELSE bad

\* the result of calling a method through a nil pointer that the method
\* dereferences
NilDeref == <<"p", "a", "n", "i", "c">>

\* (e *EtcdT).ToString, for every type but the byte blob (the name ToString
\* is taken by the TLC module)
EtcdToString(e) ==
    IF e.ptr = "nil"
    THEN IF e.typ \in {"int", "bool"} THEN NilDeref ELSE <<>>
    ELSE CASE e.typ = "time" -> FormatRFC3339(e.val)
           [] e.typ = "uuid" -> e.val
           [] e.typ = "string" -> e.val
           [] e.typ = "int" -> FormatInt(e.val)
           [] e.typ = "uint" -> FormatUint(e.val)
           [] e.typ = "bool" -> FormatBool(e.val)

\* (e *EtcdT).FromString on a freshly allocated value: the error and the
\* value *e holds afterwards (the zero value when parsing fails)
EtcdFromString(typ, value) ==
    CASE typ = "time" -> ParseRFC3339(value)
      [] typ = "uuid" -> [err |-> ErrNone, val |-> value]
      [] typ = "string" -> [err |-> ErrNone, val |-> value]
      [] typ = "int" -> ParseInt(value)
      [] typ = "uint" -> ParseUint(value)
      [] typ = "bool" -> ParseBool(value)

(***************************************************************************)
(* Record types and record values.  A record type is a sequence of field   *)
(* descriptors; a field is addressed by its path, the sequence of field    *)
(* indices leading to it.  A record value maps the path of every leaf      *)
(* field to a pointer and the path of every collection field to the        *)
(* sequence of its elements.                                               *)
(***************************************************************************)
\* a *EtcdT field with a `path` tag
Leaf(tag, typ) ==
    [kind |-> "ptr", tagged |-> TRUE, tag |-> tag, typ |-> typ,
     elem |-> "none", fields |-> <<>>]
\* a nested struct field
Nested(tag, fields) ==
    [kind |-> "struct", tagged |-> TRUE, tag |-> tag, typ |-> "none",
     elem |-> "none", fields |-> fields]
\* a []*EtcdT field
SliceOf(tag, typ) ==
    [kind |-> "slice", tagged |-> TRUE, tag |-> tag, typ |-> typ,
     elem |-> "ptr", fields |-> <<>>]
\* a []struct field
SliceOfStruct(tag) ==
    [kind |-> "slice", tagged |-> TRUE, tag |-> tag, typ |-> "none",
     elem |-> "struct", fields |-> <<>>]
\* a field without a `path` tag
Untagged(f) == [f EXCEPT !.tagged = FALSE]

\* an element of a []struct collection
StructElem == [typ |-> "struct", ptr |-> "none", val |-> 0]

\* unique identifiers: GenerateUniqueID returns a fresh identifier on every
\* call; the n-th one is written '#n'
UniqueID(n) == <<"#">> \o FormatNat(n)

\* operations handed to the transaction; field is the path of the record
\* field the operation was built for
OpGet(key, field) ==
    [op |-> "get", key |-> key, prefix |-> FALSE, val |-> <<>>, field |-> field]
OpGetPrefix(key, field) ==
    [op |-> "get", key |-> key, prefix |-> TRUE, val |-> <<>>, field |-> field]
OpPut(key, val, field) ==
    [op |-> "put", key |-> key, prefix |-> FALSE, val |-> val, field |-> field]
OpDelete(key, field) ==
    [op |-> "delete", key |-> key, prefix |-> FALSE, val |-> <<>>,
     field |-> field]
\* a variant without clientv3.WithPrefix()
OpDeleteNoPrefix(key, field) ==
    [op |-> "delete", key |-> key, prefix |-> FALSE, val |-> <<>>,
     field |-> field]
OpDeletePrefix(key, field) ==
    [op |-> "delete", key |-> key, prefix |-> TRUE, val |-> <<>>,
     field |-> field]

ErrSliceOfStructs ==
    "Cannot set a slice of structs. Structs must be set individually"
ErrSliceElem == "Slice must be of *EtcdValue type"

\* pathvar[name] = value
MapSet(m, name, value) ==
    [n \in DOMAIN m \cup {name} |-> IF n = name THEN value ELSE m[n]]

(***************************************************************************)
(* The write walk.  A walk returns its operations, its error, the variable *)
(* table as the walk left it (the map is shared with the caller) and the   *)
(* number of identifiers generated so far.                                 *)
(***************************************************************************)
\* a variant that never recognises a nested record
IsStructElemNever(f) == FALSE
\* field.Kind() == reflect.Struct, of the elements of a collection
IsStructElem(f) == f.elem = "struct"

RECURSIVE createSliceSetLoop(_, _, _, _, _, _, _)
createSliceSetLoop(f, items, path, i, etcdKey, etcdOps, ids) ==
    IF i > Len(items) THEN [ops |-> etcdOps, err |-> ErrNone, ids |-> ids]
    ELSE IF f.elem = "ptr" /\ IsSet(items[i]) THEN
        LET key == etcdKey \o <<Slash>> \o UniqueID(ids + 1) IN
        createSliceSetLoop(f, items, path, i + 1, key,
            Append(etcdOps, OpPut(key, EtcdToString(items[i]), path)),
            ids + 1)
    ELSE IF IsStructElem(f) THEN
        [ops |-> <<>>, err |-> ErrSliceOfStructs, ids |-> ids]
    ELSE createSliceSetLoop(f, items, path, i + 1, etcdKey, etcdOps, ids)

createSliceSetOps(f, items, path, etcdKey, ids) ==
    IF Len(items) = 1 /\ f.elem = "ptr" /\ IsDelete(items[1])
    THEN [ops |-> <<OpDeletePrefix(etcdKey \o <<Slash>>, path)>>,
          err |-> ErrNone, ids |-> ids]
    ELSE createSliceSetLoop(f, items, path, 1, etcdKey, <<>>, ids)

RECURSIVE createStructSetLoop(_, _, _, _, _, _, _, _)
createStructSetLoop(fields, value, base, i, pathvars, inslice, etcdOps, ids) ==
    IF i > Len(fields)
    THEN [ops |-> etcdOps, err |-> ErrNone, pathvar |-> pathvars, ids |-> ids]
    ELSE
    LET f == fields[i]
        path == Append(base, i)
        r == pathReplace(f.tag, pathvars, inslice)
    IN
    IF ~f.tagged THEN
        createStructSetLoop(fields, value, base, i + 1, pathvars, inslice,
                            etcdOps, ids)
    ELSE IF r.err # ErrNone THEN
        [ops |-> <<>>, err |-> r.err, pathvar |-> pathvars, ids |-> ids]
    ELSE IF f.kind = "ptr" THEN
        createStructSetLoop(fields, value, base, i + 1, pathvars, inslice,
            IF IsDelete(value[path])
            THEN Append(etcdOps, OpDelete(r.path, path))
            ELSE IF IsSet(value[path])
            THEN Append(etcdOps,
                        OpPut(r.path, EtcdToString(value[path]), path))
            ELSE etcdOps,
            ids)
    ELSE IF f.kind = "struct" THEN
        LET sub == createStructSetLoop(f.fields, value, path, 1,
                       MapSet(pathvars, AtName, r.path), inslice, <<>>, ids)
        IN IF sub.err # ErrNone
           THEN [ops |-> <<>>, err |-> sub.err, pathvar |-> sub.pathvar,
                 ids |-> sub.ids]
           ELSE createStructSetLoop(fields, value, base, i + 1, sub.pathvar,
                                    inslice, etcdOps \o sub.ops, sub.ids)
    ELSE IF f.kind = "slice" THEN
        LET sub == createSliceSetOps(f, value[path], path, r.path, ids)
        IN IF sub.err # ErrNone
           THEN [ops |-> <<>>, err |-> sub.err, pathvar |-> pathvars,
                 ids |-> sub.ids]
           ELSE createStructSetLoop(fields, value, base, i + 1, pathvars,
                                    inslice, etcdOps \o sub.ops, sub.ids)
    ELSE createStructSetLoop(fields, value, base, i + 1, pathvars, inslice,
                             etcdOps, ids)

createStructSetOps(fields, value, base, pathvars, inslice, ids) ==
    createStructSetLoop(fields, value, base, 1, pathvars, inslice, <<>>, ids)

(***************************************************************************)
(* The read walk: operations and, position by position, the callbacks      *)
(* that apply their responses.                                             *)
(***************************************************************************)
\* the callback bound to a leaf field / to a collection field
LeafCallback(path, typ) == [field |-> path, shape |-> "one", typ |-> typ]
SliceCallback(path, typ) == [field |-> path, shape |-> "list", typ |-> typ]

createSliceGetOps(f, items, path, key) ==
    IF Len(items) < 1 THEN [ops |-> <<>>, cbs |-> <<>>, err |-> ErrNone]
    ELSE LET etcdKey == key \o <<Slash>> IN
         IF f.elem = "ptr" THEN
             IF IsGet(items[1])
             THEN [ops |-> <<OpGetPrefix(etcdKey, path)>>,
                   cbs |-> <<SliceCallback(path, f.typ)>>, err |-> ErrNone]
             ELSE [ops |-> <<>>, cbs |-> <<>>, err |-> ErrNone]
         ELSE [ops |-> <<>>, cbs |-> <<>>, err |-> ErrSliceElem]

RECURSIVE createStructGetLoop(_, _, _, _, _, _, _, _)
createStructGetLoop(fields, value, base, i, pathvars, inslice, etcdOps, callbacks) ==
    IF i > Len(fields)
    THEN [ops |-> etcdOps, cbs |-> callbacks, err |-> ErrNone,
          pathvar |-> pathvars]
    ELSE
    LET f == fields[i]
        path == Append(base, i)
        r == pathReplace(f.tag, pathvars, inslice)
    IN
    IF ~f.tagged THEN
        createStructGetLoop(fields, value, base, i + 1, pathvars, inslice,
                            etcdOps, callbacks)
    ELSE IF r.err # ErrNone THEN
        [ops |-> <<>>, cbs |-> <<>>, err |-> r.err, pathvar |-> pathvars]
    ELSE IF f.kind = "ptr" /\ IsGet(value[path]) THEN
        createStructGetLoop(fields, value, base, i + 1, pathvars, inslice,
            Append(etcdOps, OpGet(r.path, path)),
            Append(callbacks, LeafCallback(path, f.typ)))
    ELSE IF f.kind = "struct" THEN
        LET sub == createStructGetLoop(f.fields, value, path, 1,
                       MapSet(pathvars, AtName, r.path), inslice, <<>>, <<>>)
        IN IF sub.err # ErrNone
           THEN [ops |-> <<>>, cbs |-> <<>>, err |-> sub.err,
                 pathvar |-> sub.pathvar]
           ELSE createStructGetLoop(fields, value, base, i + 1, sub.pathvar,
                    inslice, etcdOps \o sub.ops, callbacks \o sub.cbs)
    ELSE IF f.kind = "slice" THEN
        LET pv == MapSet(pathvars, AtName, r.path)
            sub == createSliceGetOps(f, value[path], path, r.path)
        IN IF sub.err # ErrNone
           THEN [ops |-> <<>>, cbs |-> <<>>, err |-> sub.err, pathvar |-> pv]
           ELSE createStructGetLoop(fields, value, base, i + 1, pv, inslice,
                    etcdOps \o sub.ops, callbacks \o sub.cbs)
    ELSE createStructGetLoop(fields, value, base, i + 1, pathvars, inslice,
                             etcdOps, callbacks)

createStructGetOps(fields, value, base, pathvars, inslice) ==
    createStructGetLoop(fields, value, base, 1, pathvars, inslice, <<>>, <<>>)

(***************************************************************************)
(* The external store.  A transaction applies its operations in order and  *)
(* answers each one; a range answers with the matching entries in          *)
(* ascending key order.                                                    *)
(***************************************************************************)
\* the characters of keys, in byte order
Alphabet ==
    <<" ", "#", "-", "/", "0", "1", "2", "3", "4", "5", "6", "7", "8", "9",
      ":", "@", "a", "b", "c", "d", "e", "f", "g", "h", "i", "j", "k", "l",
      "m", "n", "o", "p", "q", "r", "s", "t", "u", "v", "w", "x", "y", "z">>
CharRank(c) == CHOOSE i \in 1..Len(Alphabet) : Alphabet[i] = c

RECURSIVE KeyLess(_, _)
KeyLess(a, b) ==
    IF a = <<>> THEN b # <<>>
    ELSE IF b = <<>> THEN FALSE
    ELSE IF Head(a) = Head(b) THEN KeyLess(Tail(a), Tail(b))
    ELSE CharRank(Head(a)) < CharRank(Head(b))

RECURSIVE SortKeys(_)
SortKeys(S) ==
    IF S = {} THEN <<>>
    ELSE LET k == CHOOSE x \in S : \A y \in S \ {x} : KeyLess(x, y)
         IN <<k>> \o SortKeys(S \ {k})

HasKeyPrefix(k, p) == Len(k) >= Len(p) /\ SubSeq(k, 1, Len(p)) = p

\* the keys an operation ranges over
RangeOf(st, op) ==
    IF op.prefix THEN { k \in DOMAIN st : HasKeyPrefix(k, op.key) }
    ELSE { k \in DOMAIN st : k = op.key }

\* the answer to one operation: the entries of a range, none for a write
ResponseOf(st, op) ==
    IF op.op = "get"
    THEN LET ks == SortKeys(RangeOf(st, op)) IN
         [i \in 1..Len(ks) |-> [key |-> ks[i], value |-> st[ks[i]]]]
    ELSE <<>>

\* the store after one operation
ApplyOp(st, op) ==
    CASE op.op = "put" ->
            [k \in DOMAIN st \cup {op.key} |->
                IF k = op.key THEN op.val ELSE st[k]]
      [] op.op = "delete" ->
            [k \in DOMAIN st \ RangeOf(st, op) |-> st[k]]
      [] op.op = "get" -> st

\* Txn().If().Then(ops...).Commit(): the store and the responses
RECURSIVE TxnCommit(_, _, _, _)
TxnCommit(st, ops, i, resps) ==
    IF i > Len(ops) THEN [store |-> st, responses |-> resps]
    ELSE TxnCommit(ApplyOp(st, ops[i]), ops, i + 1,
                   Append(resps, ResponseOf(st, ops[i])))

(***************************************************************************)
(* The callbacks of the read walk, applied to their responses.             *)
(***************************************************************************)
ErrDecode == "Invalid data for field type"

\* the slice callback: parses every returned value into a new element and
\* appends it; stops at the first value that does not parse
RECURSIVE SliceCallbackLoop(_, _, _, _)
SliceCallbackLoop(typ, kvs, j, acc) ==
    IF j > Len(kvs) THEN [val |-> acc, err |-> ErrNone]
    ELSE LET r == EtcdFromString(typ, kvs[j].value) IN
         IF r.err # ErrNone THEN [val |-> acc, err |-> r.err]
         ELSE SliceCallbackLoop(typ, kvs, j + 1,
                                Append(acc, SetValue(typ, r.val)))

\* callbacks[i](r): the new value of the callback's field and its error
Callback(cb, kvs) ==
    IF cb.shape = "one" THEN
        IF Len(kvs) <= 0 THEN [val |-> NilPtr(cb.typ), err |-> ErrNone]
        ELSE LET r == EtcdFromString(cb.typ, kvs[1].value) IN
             [val |-> SetValue(cb.typ, r.val), err |-> r.err]
    ELSE SliceCallbackLoop(cb.typ, kvs, 1, <<>>)

\* for i, r := range resp.Responses: the record as the callbacks leave it
RECURSIVE ApplyCallbacks(_, _, _, _)
ApplyCallbacks(value, callbacks, responses, i) ==
    IF i > Len(responses) THEN [value |-> value, err |-> ErrNone]
    ELSE LET r == Callback(callbacks[i], responses[i])
             v == [value EXCEPT ![callbacks[i].field] = r.val]
         IN IF r.err # ErrNone THEN [value |-> v, err |-> ErrDecode]
            ELSE ApplyCallbacks(v, callbacks, responses, i + 1)

(***************************************************************************)
(* Inputs of SpecPath: templates joined from a pool of segments, and       *)
(* variable tables.                                                        *)
(***************************************************************************)
SegPool ==
    { <<>>, <<"a">>, <<":", "x">>, <<":", "x", "y">>, <<"a", ":", "x">>,
      <<":", "y">>, <<":", "@">> }

Templates ==
    { Join(segs) : segs \in UNION { [1..n -> SegPool] : n \in 1..MaxSegs } }

TableAll ==
    (<<"x">> :> <<"5">>) @@ (<<"x", "y">> :> <<"2">>) @@ (<<"y">> :> <<"7">>)
    @@ (AtName :> <<"/", "p">>)
TableColon ==
    (<<"x">> :> <<":", "y">>) @@ (<<"x", "y">> :> <<"2">>)
    @@ (<<"y">> :> <<"7">>) @@ (AtName :> <<>>)
TableX == (<<"x">> :> <<"5">>)

Tables == { TableAll, TableColon, TableX }

NoArg == [kind |-> "none"]
NoRet == [kind |-> "none"]

\* the main specification's variables, idle in the pure-function specifications
IdleMain ==
    /\ store = <<>>
    /\ pathvar = <<>>
    /\ model = <<>>
    /\ setLog = <<>>
    /\ last = [kind |-> "none"]
    /\ nextID = 0

InitPath ==
    /\ pc = "init"
    /\ arg \in [kind : {"pathReplace"}, path : Templates, pathvars : Tables,
                inslice : BOOLEAN]
    /\ ret = NoRet
    /\ IdleMain

CallPathReplace ==
    /\ pc = "init"
    /\ arg.kind = "pathReplace"
    /\ pc' = "done"
    /\ ret' = pathReplace(arg.path, arg.pathvars, arg.inslice)
    /\ UNCHANGED <<arg, store, pathvar, model, setLog, last, nextID>>

NextPath == CallPathReplace

SpecPath == InitPath /\ [][NextPath]_vars

(***************************************************************************)
(* SpecValue: the scalar types on their own.  The initial state draws a    *)
(* type, a constructor and a value; one action classifies the pointer the  *)
(* constructor returns, the other serialises the value and parses it back  *)
(* into a fresh instance.                                                  *)
(***************************************************************************)
TestChars == <<"t", "e", "s", "t">>

SampleValues(typ) ==
    CASE typ = "time" ->
            { TimeOf(Y, M, D, h, m, s, ns) :
                Y \in {1, 2018}, M \in {1, 8, 12}, D \in {1, 30},
                h \in {0, 12, 23}, m \in {0, 59}, s \in {0, 59},
                ns \in {0, 1, 500000000} }
      [] typ = "uuid" -> { <<>>, <<"u", "-", "1">>, <<"4", "2">> }
      [] typ = "string" ->
            { <<>>, TestChars, <<"a", "/", "b">>, <<":", "x">>, <<"-", "7">>,
              <<"t", "r", "u", "e">>, <<" ">> }
      [] typ = "int" -> { -2147483647, -42, -1, 0, 7, 42, 2147483647 }
      [] typ = "uint" -> { 0, 7, 42, 100, 2147483647 }
      [] typ = "bool" -> BOOLEAN
      [] typ = "bytes" -> { <<>>, <<0>>, <<251, 255>> }

Constructors == {"Get", "Delete", "Set", "nil"}

\* the pointer a constructor returns (nil: the field was left unset)
Construct(ctor, typ, v) ==
    CASE ctor = "Get" -> GetValue(typ)
      [] ctor = "Delete" -> DeleteValue(typ)
      [] ctor = "Set" -> SetValue(typ, v)
      [] ctor = "nil" -> NilPtr(typ)

ValueInputs ==
    UNION { { [kind |-> k, typ |-> t, ctor |-> c, val |-> v] :
                v \in SampleValues(t) } :
            k \in {"classify", "roundtrip"}, c \in Constructors,
            t \in ScalarTypes }

InitValue ==
    /\ pc = "init"
    /\ arg \in { a \in ValueInputs :
                   \/ a.kind = "classify"
                   \/ a.kind = "roundtrip" /\ a.ctor = "Set" /\ a.typ # "bytes" }
    /\ ret = NoRet
    /\ IdleMain

CallClassify ==
    /\ pc = "init"
    /\ arg.kind = "classify"
    /\ pc' = "done"
    /\ ret' = LET e == Construct(arg.ctor, arg.typ, arg.val) IN
              [IsGet |-> IsGet(e), IsSet |-> IsSet(e), IsDelete |-> IsDelete(e)]
    /\ UNCHANGED <<arg, store, pathvar, model, setLog, last, nextID>>

CallRoundTrip ==
    /\ pc = "init"
    /\ arg.kind = "roundtrip"
    /\ pc' = "done"
    /\ ret' = EtcdFromString(arg.typ,
                  EtcdToString(Construct(arg.ctor, arg.typ, arg.val)))
    /\ UNCHANGED <<arg, store, pathvar, model, setLog, last, nextID>>

NextValue == CallClassify \/ CallRoundTrip

SpecValue == InitValue /\ [][NextValue]_vars

(***************************************************************************)
(* C6.  Intent classification.                                             *)
(***************************************************************************)
\* C6: the write constructor's value reports IsSet only, the fetch
\* constructor's value IsGet only, the delete constructor's value IsDelete
\* only, and a nil pointer reports IsSet = FALSE; so at most one of the
\* three is true of any field value.
C6_IntentExclusive ==
    (pc = "done" /\ arg.kind = "classify")
    => /\ arg.ctor = "Set" =>
            (ret.IsSet /\ ~ret.IsGet /\ ~ret.IsDelete)
       /\ arg.ctor = "Get" =>
            (ret.IsGet /\ ~ret.IsSet /\ ~ret.IsDelete)
       /\ arg.ctor = "Delete" =>
            (ret.IsDelete /\ ~ret.IsGet /\ ~ret.IsSet)
       /\ arg.ctor = "nil" => ~ret.IsSet
       /\ Cardinality({ f \in {"IsGet", "IsSet", "IsDelete"} : ret[f] }) <= 1

(***************************************************************************)
(* C10.  Scalar round trip.                                                *)
(***************************************************************************)
\* C10: for every scalar type but the byte blob and every value v,
\* FromString(ToString(v)) succeeds and yields v, for time also when v has a
\* non-zero sub-second part.
C10_ScalarRoundTrip ==
    (pc = "done" /\ arg.kind = "roundtrip")
    => (ret.err = ErrNone /\ ret.val = arg.val)

(***************************************************************************)
(* Get and Set.  Each returns its error, the caller's variable table as    *)
(* the call left it, the store, and what it built and submitted.           *)
(***************************************************************************)
ErrNotPointer == "Provided interface is not a pointer"
ErrNotStruct == "Provided interface is does not reference a struct"
ErrTxn == "Error performing ops"
ErrCount == "Unexpected number of responses"

\* a variant that hands the answers over in reverse order
AnswerReversed(responses, outcome) ==
    [i \in 1..Len(responses) |-> responses[Len(responses) + 1 - i]]
\* resp.Responses as the caller receives it: one answer per operation, or,
\* from a server that answers short, all but the last
Answer(responses, outcome) ==
    IF outcome = "short" /\ responses # <<>>
    THEN SubSeq(responses, 1, Len(responses) - 1)
    ELSE responses

\* store.Set(s, pathvar); shape is what s is, outcome what Commit does
SetCall(shape, value, outcome) ==
    LET none == [err |-> ErrNone, pathvar |-> pathvar, store |-> store,
                 ids |-> nextID, built |-> <<>>, submitted |-> <<>>,
                 cbs |-> <<>>, out |-> value]
    IN
    IF shape = "struct" THEN [none EXCEPT !.err = ErrNotPointer]
    ELSE IF shape # "ptr-struct" THEN [none EXCEPT !.err = ErrNotStruct]
    ELSE
    LET w == createStructSetOps(model, value, <<>>,
                                MapSet(pathvar, AtName, <<>>), FALSE, nextID)
        walked == [none EXCEPT !.pathvar = w.pathvar, !.ids = w.ids]
    IN
    IF w.err # ErrNone THEN [walked EXCEPT !.err = w.err]
    ELSE IF outcome = "fail"
    THEN [walked EXCEPT !.err = ErrTxn, !.built = w.ops, !.submitted = w.ops]
    ELSE LET t == TxnCommit(store, w.ops, 1, <<>>)
             responses == Answer(t.responses, outcome)
         IN
         [walked EXCEPT !.built = w.ops, !.submitted = w.ops,
                        !.store = t.store,
                        !.err = IF Len(responses) # Len(w.ops)
                                THEN ErrCount ELSE ErrNone]

\* store.Get(g, pathvar)
GetCall(shape, value, outcome) ==
    LET none == [err |-> ErrNone, pathvar |-> pathvar, store |-> store,
                 ids |-> nextID, built |-> <<>>, submitted |-> <<>>,
                 cbs |-> <<>>, out |-> value]
    IN
    IF shape = "struct" THEN [none EXCEPT !.err = ErrNotPointer]
    ELSE IF shape # "ptr-struct" THEN [none EXCEPT !.err = ErrNotStruct]
    ELSE
    LET w == createStructGetOps(model, value, <<>>,
                                MapSet(pathvar, AtName, <<>>), FALSE)
        walked == [none EXCEPT !.pathvar = w.pathvar]
    IN
    IF w.err # ErrNone THEN [walked EXCEPT !.err = w.err]
    ELSE IF outcome = "fail"
    THEN [walked EXCEPT !.err = ErrTxn, !.built = w.ops, !.submitted = w.ops,
                        !.cbs = w.cbs]
    ELSE LET t == TxnCommit(store, w.ops, 1, <<>>)
             responses == Answer(t.responses, outcome)
         IN
         IF Len(responses) # Len(w.cbs)
         THEN [walked EXCEPT !.err = ErrCount, !.built = w.ops,
                             !.submitted = w.ops, !.cbs = w.cbs,
                             !.store = t.store]
         ELSE LET a == ApplyCallbacks(value, w.cbs, responses, 1) IN
              [walked EXCEPT !.built = w.ops, !.submitted = w.ops,
                             !.cbs = w.cbs, !.store = t.store,
                             !.err = a.err, !.out = a.value]

(***************************************************************************)
(* The record types of the main specification and the records a caller     *)
(* passes.                                                                 *)
(***************************************************************************)
TagName == <<"/", ":", "v", "/", "n">>
TagCount == <<"/", ":", "v", "/", "u">>
TagChild == <<"/", ":", "v", "/", "c">>
TagSlice == <<"/", ":", "v", "/", "s">>
TagItems == <<"/", ":", "v", "/", "t">>
TagTime == <<"/", ":", "v", "/", "w">>
TagAtInt == <<":", "@", "/", "i">>
TagAtBool == <<":", "@", "/", "b">>
TagAtID == <<":", "@", "/", "d">>
TagAtSub == <<":", "@", "/", "g">>
TagAtTail == <<":", "@", "/", "t">>

\* a text leaf and a nested record with an integer leaf (TestModel2Parent)
ModelParent ==
    <<Leaf(TagName, "string"), Nested(TagChild, <<Leaf(TagAtInt, "int")>>)>>
\* a boolean leaf two records deep
ModelDeep ==
    <<Nested(TagChild, <<Nested(TagAtSub, <<Leaf(TagAtBool, "bool")>>)>>)>>
\* an untagged field and an unsigned leaf
ModelCount ==
    <<Untagged(Leaf(TagName, "string")), Leaf(TagCount, "uint")>>
\* an identifier leaf in a nested record
ModelID == <<Nested(TagChild, <<Leaf(TagAtID, "uuid")>>)>>
\* a time leaf (TestTimes)
ModelTimes == <<Leaf(TagTime, "time")>>
\* a collection of identifiers (TestModel3)
ModelSlice == <<SliceOf(TagSlice, "uuid")>>
\* a text leaf and a collection of nested records
ModelItems == <<Leaf(TagName, "string"), SliceOfStruct(TagItems)>>

\* the leaf and collection fields of a record type, with their paths
RECURSIVE ValueFields(_, _)
ValueFields(fields, base) ==
    UNION { IF fields[i].kind = "struct"
            THEN ValueFields(fields[i].fields, Append(base, i))
            ELSE { [path |-> Append(base, i), f |-> fields[i]] } :
            i \in 1..Len(fields) }

\* the value the n-th Set of a behaviour writes to a field of a type (j: which
\* of the values a collection element may take)
WriteVal(typ, n, j) ==
    CASE typ = "string" -> <<"t">> \o FormatNat(n)
      [] typ = "uuid" -> <<"u">> \o FormatNat(n) \o <<"-">> \o FormatNat(j)
      [] typ = "int" -> IF n % 2 = 1 THEN 41 + n ELSE 0 - (41 + n)
      [] typ = "uint" -> 41 + n
      [] typ = "bool" -> n % 2 = 1
      [] typ = "time" -> TimeOf(2018, 8, 30, 12, 0, n, 0)

\* sequences of at most MaxSliceLen elements
SeqsUpTo(S) == UNION { [1..k -> S] : k \in 0..MaxSliceLen }

\* what a caller of Set may put in a field
SetChoices(pf, n) ==
    IF ~pf.f.tagged THEN { NilPtr(pf.f.typ) }
    ELSE IF pf.f.kind = "ptr" THEN
        { NilPtr(pf.f.typ), GetValue(pf.f.typ), DeleteValue(pf.f.typ),
          SetValue(pf.f.typ, WriteVal(pf.f.typ, n, 0)) }
    ELSE IF pf.f.elem = "ptr" THEN
        SeqsUpTo({ SetValue(pf.f.typ, WriteVal(pf.f.typ, n, j)) : j \in 0..1 })
        \cup { <<DeleteValue(pf.f.typ)>>,
               <<DeleteValue(pf.f.typ),
                 SetValue(pf.f.typ, WriteVal(pf.f.typ, n, 0))>> }
    ELSE SeqsUpTo({StructElem})

\* what a caller of Get may put in a field
GetChoices(pf) ==
    IF ~pf.f.tagged THEN { NilPtr(pf.f.typ) }
    ELSE IF pf.f.kind = "ptr" THEN { NilPtr(pf.f.typ), GetValue(pf.f.typ) }
    ELSE IF pf.f.elem = "ptr"
    THEN { <<>>, <<GetValue(pf.f.typ)>>, <<DeleteValue(pf.f.typ)>> }
    ELSE { <<>>, <<StructElem>> }

\* the records over a set of fields, one choice per field
RECURSIVE RecordsOver(_, _, _)
RecordsOver(pfs, mode, n) ==
    IF pfs = {} THEN { <<>> }
    ELSE LET pf == CHOOSE x \in pfs : TRUE
             cs == IF mode = "Set" THEN SetChoices(pf, n) ELSE GetChoices(pf)
         IN { (pf.path :> c) @@ r :
                c \in cs, r \in RecordsOver(pfs \ {pf}, mode, n) }

Records(mode, n) == RecordsOver(ValueFields(model, <<>>), mode, n)

\* the record of a call whose argument is not a pointer to a record
NilRecord ==
    LET pfs == ValueFields(model, <<>>) IN
    [p \in { pf.path : pf \in pfs } |->
        LET pf == CHOOSE x \in pfs : x.path = p IN
        IF pf.f.kind = "ptr" THEN NilPtr(pf.f.typ) ELSE <<>>]

Shapes == {"ptr-struct", "struct", "ptr-scalar"}
Outcomes == {"ok", "fail", "short"}

VarName == <<"v">>
VarTables == { (VarName :> <<"s">>), (<<"x">> :> <<"s">>) }

\* entries left in the store by earlier runs: one under every key the write
\* walk of the record type resolves, and the identifiers they used up
StaleValue == <<"z">>
StaleWalk(m, pv) ==
    LET pfs == ValueFields(m, <<>>)
        full == [p \in { pf.path : pf \in pfs } |->
                   LET pf == CHOOSE x \in pfs : x.path = p IN
                   IF pf.f.kind = "ptr" THEN SetValue(pf.f.typ, ZeroOf(pf.f.typ))
                   ELSE IF pf.f.elem = "ptr"
                   THEN <<SetValue(pf.f.typ, ZeroOf(pf.f.typ))>>
                   ELSE <<>>]
    IN createStructSetOps(m, full, <<>>, MapSet(pv, AtName, <<>>), FALSE, 0)
StaleStore(m, pv) ==
    LET w == StaleWalk(m, pv) IN
    [k \in { w.ops[i].key : i \in 1..Len(w.ops) } |-> StaleValue]

\* the state after construction, for a caller working with one of the
\* record types ms; the store is empty or holds stale entries
InitOf(ms) ==
    /\ pc = "ready"
    /\ arg = NoArg
    /\ ret = NoRet
    /\ model \in ms
    /\ pathvar \in VarTables
    /\ \E stale \in BOOLEAN :
         /\ store = IF stale THEN StaleStore(model, pathvar) ELSE <<>>
         /\ nextID = IF stale THEN StaleWalk(model, pathvar).ids ELSE 0
    /\ setLog = <<>>
    /\ last = [kind |-> "none"]

\* the record of a call
CallRecord(kind, shape, value, outcome, r) ==
    [kind |-> kind, shape |-> shape, in |-> value, outcome |-> outcome,
     err |-> r.err, built |-> r.built, submitted |-> r.submitted,
     cbs |-> r.cbs, out |-> r.out, before |-> store]

\* a caller stops at the first call that returns an error
AfterCall(kind, err) == IF err = ErrNone THEN kind ELSE "failed"

Set ==
    /\ pc \in {"ready", "Set", "Get"}
    /\ Len(setLog) < MaxSets
    /\ \E shape \in Shapes, outcome \in Outcomes :
       \E value \in IF shape = "ptr-struct"
                    THEN Records("Set", Len(setLog) + 1) ELSE {NilRecord} :
         /\ shape # "ptr-struct" => outcome = "ok"
         /\ \E r \in {SetCall(shape, value, outcome)} :
              /\ pc' = AfterCall("Set", r.err)
              /\ store' = r.store
              /\ pathvar' = r.pathvar
              /\ nextID' = r.ids
              /\ setLog' = IF r.err = ErrNone
                           THEN Append(setLog, [in |-> value, ops |-> r.built])
                           ELSE setLog
              /\ last' = CallRecord("Set", shape, value, outcome, r)
              /\ UNCHANGED <<arg, ret, model>>

Get ==
    /\ pc \in {"ready", "Set", "Get"}
    /\ \E shape \in Shapes, outcome \in Outcomes :
       \E value \in IF shape = "ptr-struct"
                    THEN Records("Get", 0) ELSE {NilRecord} :
         /\ shape # "ptr-struct" => outcome = "ok"
         /\ \E r \in {GetCall(shape, value, outcome)} :
              /\ pc' = AfterCall("Get", r.err)
              /\ store' = r.store
              /\ pathvar' = r.pathvar
              /\ last' = CallRecord("Get", shape, value, outcome, r)
              /\ UNCHANGED <<arg, ret, model, setLog, nextID>>

Next == Set \/ Get

\* records of leaf fields and nested records
Init ==
    InitOf({ModelParent, ModelDeep, ModelCount, ModelID, ModelTimes})
Spec == Init /\ [][Next]_vars

\* a record with a collection of identifiers
InitSlice == InitOf({ModelSlice})
SpecSlice == InitSlice /\ [][Next]_vars

\* a record with a collection of nested records
InitItems == InitOf({ModelItems})
SpecItems == InitItems /\ [][Next]_vars

(***************************************************************************)
(* C7.  Path resolution, segment by segment.                               *)
(***************************************************************************)
\* the variable names a template refers to
ReferencedVars(path) ==
    { TrimPrefix(p, Colon) :
        p \in { q \in { Split(path, Slash)[i] : i \in 1..Len(Split(path, Slash)) } :
                HasPrefix(q, Colon) } }

\* each ':' segment replaced by the value of its own variable, literal
\* segments left unchanged
SegmentwiseResolve(path, pathvars) ==
    LET segs == Split(path, Slash) IN
    Join([i \in 1..Len(segs) |->
            IF HasPrefix(segs[i], Colon)
            THEN pathvars[TrimPrefix(segs[i], Colon)]
            ELSE segs[i]])

\* C7: for every template and every table that defines each referenced
\* variable, pathReplace succeeds and returns the template with each ':'
\* segment replaced by the value of that segment's own variable and every
\* literal segment unchanged.
C7_SegmentwiseResolution ==
    (pc = "done" /\ arg.kind = "pathReplace" /\ ~arg.inslice
       /\ ReferencedVars(arg.path) \subseteq DOMAIN arg.pathvars)
    => (ret.err = ErrNone
        /\ ret.path = SegmentwiseResolve(arg.path, arg.pathvars))

(***************************************************************************)
(* What the claims about Get and Set speak of: the tagged fields of the    *)
(* caller's record type, the key of each, and the intent of a field value. *)
(***************************************************************************)
LeafFields ==
    { pf \in ValueFields(model, <<>>) : pf.f.tagged /\ pf.f.kind = "ptr" }
SliceFields ==
    { pf \in ValueFields(model, <<>>) : pf.f.tagged /\ pf.f.kind = "slice" }
FieldAt(path) == (CHOOSE pf \in ValueFields(model, <<>>) : pf.path = path).f

\* the key of the field at a path: every template on the way resolved segment
\* by segment, '@' standing for the key of the directly enclosing record
RECURSIVE EnclosedKey(_, _, _, _)
EnclosedKey(fields, path, acc, table) ==
    LET f == fields[Head(path)]
        k == SegmentwiseResolve(f.tag, [n \in DOMAIN table \cup {AtName} |->
                                           IF n = AtName THEN acc ELSE table[n]])
    IN IF Len(path) = 1 THEN k
       ELSE EnclosedKey(f.fields, Tail(path), k, table)
KeyOf(path) == EnclosedKey(model, path, <<>>, pathvar)

Written(e) == e.ptr = "new"
Fetching(e) == e.ptr = "getOp"
Deleting(e) == e.ptr = "deleteOp"
Null(e) == e.ptr = "nil"

\* the positions of the operations built for a field
OpsFor(ops, path) == { i \in 1..Len(ops) : ops[i].field = path }
\* what a store holds under a key
StoredAt(st, k) == IF k \in DOMAIN st THEN <<st[k]>> ELSE <<>>

\* the most recent successful Set of the behaviour, and the one before it
LastSet == setLog[Len(setLog)]
PrevSet == setLog[Len(setLog) - 1]

\* the scalar types C1 names
TextualTypes == {"string", "uuid", "int", "uint", "bool"}
DistinctKeys ==
    \A pf \in LeafFields, qf \in LeafFields :
        pf.path # qf.path => KeyOf(pf.path) # KeyOf(qf.path)

(***************************************************************************)
(* C1.  Write, then read.                                                  *)
(***************************************************************************)
WroteAllThenFetchedAll ==
    /\ pc = "Get"
    /\ setLog # <<>>
    /\ DistinctKeys
    /\ \A pf \in LeafFields :
         /\ pf.f.typ \in TextualTypes
         /\ Written(LastSet.in[pf.path])
         /\ Fetching(last.in[pf.path])

\* C1: when the latest Set wrote every leaf field (text, identifier, integer,
\* boolean; pairwise distinct keys) and a Get then fetches every leaf field
\* with the same variables, every fetched field equals the value written.
C1_WriteThenRead ==
    WroteAllThenFetchedAll
    => \A pf \in LeafFields : last.out[pf.path] = LastSet.in[pf.path]

\* a Get that fetched both fields of the two-level record after two Sets that
\* wrote them
C1_Witness ==
    /\ WroteAllThenFetchedAll
    /\ model = ModelParent
    /\ Len(setLog) = 2

(***************************************************************************)
(* C2.  A partial write leaves the other fields as they were.              *)
(***************************************************************************)
WroteAllThenSome ==
    /\ pc = "Get"
    /\ Len(setLog) >= 2
    /\ \A pf \in LeafFields :
         /\ pf.f.typ \in TextualTypes
         /\ Written(PrevSet.in[pf.path])
         /\ Written(LastSet.in[pf.path]) \/ Null(LastSet.in[pf.path])
         /\ Fetching(last.in[pf.path])

C3_DeleteThenRead ==
    /\ (last.kind = "Set" /\ last.shape = "ptr-struct"
          /\ last.err \in {ErrNone, ErrTxn})
       => \A pf \in LeafFields :
             Deleting(last.in[pf.path])
             => \E i \in 1..Len(last.built) :
                   /\ OpsFor(last.built, pf.path) = {i}
                   /\ last.built[i].op = "delete"
                   /\ ~last.built[i].prefix
                   /\ last.built[i].key = KeyOf(pf.path)
    /\ (pc = "Get" /\ setLog # <<>>)
       => \A pf \in LeafFields :
             (Deleting(LastSet.in[pf.path]) /\ Fetching(last.in[pf.path]))
             => Null(last.out[pf.path])

\* a field written by the first Set, deleted by the second and then fetched
C3_Witness ==
    /\ pc = "Get"
    /\ model = ModelParent
    /\ Len(setLog) = 2
    /\ \E pf \in LeafFields :
         /\ Written(PrevSet.in[pf.path])
         /\ Deleting(LastSet.in[pf.path])
         /\ OpsFor(LastSet.ops, pf.path) # {}
         /\ Fetching(last.in[pf.path])
         /\ Null(last.out[pf.path])

(***************************************************************************)
(* C4.  Clear a collection, then list it.                                  *)
(***************************************************************************)
Count(s, v) == Cardinality({ j \in 1..Len(s) : s[j] = v })
SameMultiset(a, b) ==
    /\ Len(a) = Len(b)
    /\ \A j \in 1..Len(a) : Count(a, a[j]) = Count(b, a[j])
Clears(items) == Len(items) = 1 /\ Deleting(items[1])
Probes(items) == Len(items) = 1 /\ Fetching(items[1])
WritesAll(items) ==
    Len(items) >= 1 /\ \A j \in 1..Len(items) : Written(items[j])

\* C4: when the latest Set held one delete element in a collection, a Get
\* with one fetch element in it leaves the collection empty; and when the Set
\* before the latest cleared the collection and the latest wrote n >= 1
\* written elements, such a Get leaves exactly those elements, as a multiset.
C4_ClearThenList ==
    pc = "Get"
    => \A pf \in SliceFields :
          Probes(last.in[pf.path])
          => /\ (setLog # <<>> /\ Clears(LastSet.in[pf.path]))
                => last.out[pf.path] = <<>>
             /\ (Len(setLog) >= 2 /\ Clears(PrevSet.in[pf.path])
                   /\ WritesAll(LastSet.in[pf.path]))
                => SameMultiset(last.out[pf.path], LastSet.in[pf.path])

\* a collection cleared, then written with two elements and
\* listed
C4_Witness ==
    /\ pc = "Get"
    /\ Len(setLog) = 2
    /\ \E pf \in SliceFields :
         /\ Probes(last.in[pf.path])
         /\ Clears(PrevSet.in[pf.path])
         /\ WritesAll(LastSet.in[pf.path])
         /\ Len(LastSet.in[pf.path]) = 2
         /\ Len(last.out[pf.path]) = 2

(***************************************************************************)
(* C5.  Fetch intent and nil on the write path.                            *)
(***************************************************************************)
\* C5: a successful Set builds no operation for a leaf field that holds the
\* fetch sentinel or nil, and leaves what the store holds under the field's
\* key as it was.
C5_FetchOrNullSkipped ==
    (pc = "Set" /\ DistinctKeys)
    => \A pf \in LeafFields :
          (Fetching(last.in[pf.path]) \/ Null(last.in[pf.path]))
          => /\ OpsFor(last.built, pf.path) = {}
             /\ StoredAt(store, KeyOf(pf.path))
                  = StoredAt(last.before, KeyOf(pf.path))

(***************************************************************************)
(* C9.  Collections of nested records.                                     *)
(***************************************************************************)
HoldsRecords(pf) == pf.f.elem = "struct" /\ Len(last.in[pf.path]) >= 1

\* C9: a Set of a record in which a tagged collection holds a nested record
\* returns an error, submits no operation, and leaves the store as it was.
C9_StructCollectionRejected ==
    (last.kind = "Set" /\ last.shape = "ptr-struct"
       /\ \E pf \in SliceFields : HoldsRecords(pf))
    => /\ last.err # ErrNone
       /\ pc = "failed"
       /\ last.submitted = <<>>
       /\ store = last.before

\* a Set over a store with entries, holding a written leaf before the
\* collection of nested records, rejected by the write walk
C9_Witness ==
    /\ last.kind = "Set"
    /\ last.shape = "ptr-struct"
    /\ \E pf \in SliceFields : HoldsRecords(pf)
    /\ \E pf \in LeafFields : Written(last.in[pf.path])
    /\ last.err = ErrSliceOfStructs
    /\ last.before # <<>>

(***************************************************************************)
(* C8.  The accumulator variable.  Record types in which a field that      *)
(* refers to '@' follows a nested record or a collection.                  *)
(***************************************************************************)
\* a nested record, then a leaf of the top-level record
ModelTail ==
    <<Nested(TagChild, <<Leaf(TagAtInt, "int")>>), Leaf(TagAtTail, "string")>>
\* two levels of nested records, then a leaf of the outer one
ModelInnerTail ==
    <<Nested(TagChild, <<Nested(TagAtSub, <<Leaf(TagAtBool, "bool")>>),
                         Leaf(TagAtID, "uuid")>>)>>
\* a collection, then a leaf of the top-level record
ModelAfterSlice == <<SliceOf(TagSlice, "uuid"), Leaf(TagAtTail, "string")>>

InitScope == InitOf({ModelTail, ModelInnerTail, ModelAfterSlice})
SpecScope == InitScope /\ [][Next]_vars

\* C8: in a Set and in a Get, every operation built for a leaf field has the
\* field's key with '@' standing for the key of the directly enclosing
\* record (the empty string at the top level), and every operation built for
\* a collection has a key under that key of the collection.
C8_AccumulatorScoping ==
    pc \in {"Set", "Get"}
    => \A i \in 1..Len(last.built) :
          LET op == last.built[i] IN
          IF FieldAt(op.field).kind = "slice"
          THEN HasKeyPrefix(op.key, KeyOf(op.field) \o <<Slash>>)
          ELSE op.key = KeyOf(op.field)

(***************************************************************************)
(* C11.  Responses and callbacks in Get, position by position.  Record     *)
(* types whose stored values may fail to parse.                            *)
(***************************************************************************)
\* an integer leaf, then a text leaf
ModelIntFirst == <<Leaf(TagCount, "int"), Leaf(TagName, "string")>>
\* a collection of integers
ModelIntSlice == <<SliceOf(TagSlice, "int")>>

InitDecode == InitOf({ModelParent, ModelIntFirst, ModelIntSlice})
SpecDecode == InitDecode /\ [][Next]_vars

\* the entries the store held, before the last call, under the i-th
\* operation of the call, in ascending key order
AnswerTo(i) ==
    LET op == last.built[i]
        ks == SortKeys({ k \in DOMAIN last.before :
                           IF op.prefix THEN HasKeyPrefix(k, op.key)
                           ELSE k = op.key })
    IN [j \in 1..Len(ks) |-> last.before[ks[j]]]

Parses(typ, s) == EtcdFromString(typ, s).err = ErrNone
Parsed(typ, s) ==
    [typ |-> typ, ptr |-> "new", val |-> EtcdFromString(typ, s).val]

\* the i-th callback of the last call fails on the i-th answer
FailsAt(i) ==
    LET typ == FieldAt(last.cbs[i].field).typ
        a == AnswerTo(i)
    IN IF FieldAt(last.cbs[i].field).kind = "slice"
       THEN \E j \in 1..Len(a) : ~Parses(typ, a[j])
       ELSE a # <<>> /\ ~Parses(typ, a[1])

\* what the i-th callback leaves in its field when it succeeds
DecodedAt(i) ==
    LET typ == FieldAt(last.cbs[i].field).typ
        a == AnswerTo(i)
    IN IF FieldAt(last.cbs[i].field).kind = "slice"
       THEN [j \in 1..Len(a) |-> Parsed(typ, a[j])]
       ELSE IF a = <<>>
       THEN [last.in[last.cbs[i].field] EXCEPT !.ptr = "nil"]
       ELSE Parsed(typ, a[1])

\* the fields no callback of the last call belongs to
Unfetched ==
    { p \in DOMAIN last.in : \A i \in 1..Len(last.cbs) : last.cbs[i].field # p }

\* C11: the read walk returns as many callbacks as operations, the i-th of
\* each for the same field; when the transaction fails or answers with
\* another number of responses no field changes; otherwise callback i is
\* applied to response i in increasing i, and when callback k fails Get
\* returns an error, the fields of the callbacks before k hold their decoded
\* values and the fields of the callbacks after k are as the caller passed
\* them.
C11_PositionalCallbacks ==
    (last.kind = "Get" /\ last.shape = "ptr-struct")
    => /\ Len(last.cbs) = Len(last.built)
       /\ \A i \in 1..Len(last.cbs) :
             /\ last.cbs[i].field = last.built[i].field
             /\ last.built[i].op = "get"
             /\ Fetching(IF FieldAt(last.cbs[i].field).kind = "slice"
                         THEN last.in[last.cbs[i].field][1]
                         ELSE last.in[last.cbs[i].field])
       /\ \A p \in Unfetched : last.out[p] = last.in[p]
       /\ last.err \in {ErrTxn, ErrCount} => last.out = last.in
       /\ (last.outcome = "short" /\ last.built # <<>>) => last.err = ErrCount
       /\ last.err = ErrNone
          => \A i \in 1..Len(last.cbs) :
                ~FailsAt(i) /\ last.out[last.cbs[i].field] = DecodedAt(i)
       /\ last.err = ErrDecode
          => \E k \in 1..Len(last.cbs) :
                /\ FailsAt(k)
                /\ \A i \in 1..(k - 1) :
                      ~FailsAt(i)
                      /\ last.out[last.cbs[i].field] = DecodedAt(i)
                /\ \A i \in (k + 1)..Len(last.cbs) :
                      last.out[last.cbs[i].field] = last.in[last.cbs[i].field]

\* a Get whose first callback decoded its answer and whose second failed
C11_Witness ==
    /\ last.kind = "Get"
    /\ last.err = ErrDecode
    /\ Len(last.cbs) = 2
    /\ ~FailsAt(1)
    /\ FailsAt(2)
    /\ Written(last.out[last.cbs[1].field])

\* a Get whose first callback failed, the field of the second still holding
\* the fetch sentinel
C11_FailedFirst ==
    /\ last.kind = "Get"
    /\ last.err = ErrDecode
    /\ Len(last.cbs) = 2
    /\ FailsAt(1)
    /\ Fetching(last.out[last.cbs[2].field])

(***************************************************************************)
(* C12.  The keys of written collection elements.                          *)
(***************************************************************************)
\* key is K, a slash and one identifier: a segment without a slash
OneSegmentUnder(key, K) ==
    /\ Len(key) > Len(K) + 1
    /\ SubSeq(key, 1, Len(K) + 1) = K \o <<Slash>>
    /\ \A c \in (Len(K) + 2)..Len(key) : key[c] # Slash

\* C12: for a collection with key K that holds n >= 1 written elements, Set
\* builds exactly n operations, the j-th a Put of the j-th element, with
\* pairwise distinct keys, each K, a slash and a single identifier.
C12_UniqueKeySuffix ==
    (last.kind = "Set" /\ last.shape = "ptr-struct"
       /\ last.err \in {ErrNone, ErrTxn, ErrCount})
    => \A pf \in SliceFields :
          WritesAll(last.in[pf.path])
          => LET items == last.in[pf.path]
                 ops == SelectSeq(last.built, LAMBDA o : o.field = pf.path)
             IN /\ Len(ops) = Len(items)
                /\ \A j \in 1..Len(ops) :
                      /\ ops[j].op = "put"
                      /\ ops[j].val = items[j].val
                      /\ OneSegmentUnder(ops[j].key, KeyOf(pf.path))
                /\ \A j \in 1..Len(ops), k \in 1..Len(ops) :
                      j # k => ops[j].key # ops[k].key

(***************************************************************************)
(* C13.  The keys of the read walk and of the write walk.                  *)
(***************************************************************************)
\* a Get operation and a Set operation for one field have the same key: the
\* key of a leaf, the prefix K/ of a collection
SameKey(g, w) ==
    IF FieldAt(g.field).kind = "slice"
    THEN IF w.prefix THEN g.key = w.key ELSE HasKeyPrefix(w.key, g.key)
    ELSE g.key = w.key

\* C13: for one record type and one variable table, every operation a Get
\* builds for a field has the key of the operations the latest Set built for
\* that field, whatever fields were walked before it.
C13_ReadWriteKeyAgreement ==
    (pc = "Get" /\ setLog # <<>>)
    => \A i \in 1..Len(last.built), j \in 1..Len(LastSet.ops) :
          last.built[i].field = LastSet.ops[j].field
          => SameKey(last.built[i], LastSet.ops[j])

====
